---- MODULE Spec2Model ----
(***************************************************************************)
(* Bot pool allocation core of util.py: the newbots table, the allocation  *)
(* entry points crypto() and stock(), get_new_bot's select / update /      *)
(* commit claim steps, create_bot, and the registration path add_bot.      *)
(* Every store access and every external call (validation, activation,     *)
(* rename, notification sink) is one step, so concurrent requests          *)
(* interleave exactly where the program can be preempted.                  *)
(***************************************************************************)
EXTENDS Integers, Sequences, FiniteSets, TLC

\* ------------------------------------------------------------------ bounds
NumCalls == 2
InitPool == 2

\* The calls in flight: each is one invocation of crypto(), stock() or add_bot()
Calls == 1..NumCalls

\* ------------------------------------------------------- values and strings
NULL == "NULL"
None == "None"
Kinds == {"crypto", "stock"}

\* The requests callers make: crypto('Bitcoin') and stock('AAPL').
AllocArgs == {<<"crypto", "Bitcoin">>, <<"stock", "AAPL">>}

\* str.lower() on the strings of the model
Lower(s) ==
  CASE s = "Bitcoin" -> "bitcoin"
    [] s = "AAPL" -> "aapl"
    [] OTHER -> s

\* The external catalogs: CoinGecko answers coins/{id} with the coin's id and
\* symbol, Yahoo answers quoteSummary/{id} with the symbol in upper case.
CoinList == {"bitcoin"}
CoinSymbol(id) == IF id = "bitcoin" THEN "btc" ELSE id
StockList == {"aapl"}
StockSymbol(id) == IF id = "aapl" THEN "AAPL" ELSE id

\* The credentials the pool is provisioned with, in insertion order.
Credentials ==
  [i \in 1..(InitPool + 1) |->
     [client_id |-> "c" \o ToString(i), token |-> "t" \o ToString(i)]]

\* The credentials add_bot is called with: a client_id already provisioned,
\* a token already provisioned, and a new pair.
AddArgs == {<<"c1", "tx">>, <<"cx", "t1">>, <<"cx", "tx">>}

\* ---------------------------------------------------------------- messages
MsgUnableGet == "Unable to get new bot from db"
MsgUnableClaim == "Unable to claim new bot in db"
MsgInvalid == "unable to validate id"
MsgNoMore == "no more new bots avalible"
MsgExisting == "existing bot requested"
MsgAttempt == "attempting to create new bot"
MsgRespText == "resp.text"
MsgInvite == "invite link"
MsgUnableName == "unable to change the name"
MsgUnableAdd == "Unable to add new bot to db"

ErrInvalid == "unable to validate id"
ErrNoBotsCrypto == "there are no more unclaimed bots"
ErrNoBotsStock == "no more new bots avalible"
ErrTrouble == "having trouble starting new bot"

\* ------------------------------------------------------------------- state
\* newbots: the committed rows of the table, in insertion order
\* txn:     the open write transaction: the call that owns it and the table as
\*          that call's connection sees it; other connections read newbots
\* call:    the locals and the position of every call
\* pool0:   the number of unclaimed rows the pool started with
VARIABLES newbots, txn, call, pool0

vars == <<newbots, txn, call, pool0>>

\* A row of the newbots table.
Row(c, t, tk, ty) == [client_id |-> c, token |-> t, ticker |-> tk, type |-> ty]

\* The returned dict; client_id lists the entry fields placed under that key.
NoResult == [client_id |-> <<>>, existing |-> FALSE, error |-> ""]
ResNew(v) == [client_id |-> v, existing |-> FALSE, error |-> ""]
ResExisting(v) == [client_id |-> v, existing |-> TRUE, error |-> ""]
ResError(m) == [client_id |-> <<>>, existing |-> FALSE, error |-> m]

Terminal == {"done", "raised"}

\* ------------------------------------------------------------ schema (DDL)
\* The uniqueness constraints of the newbots table: client_id, token, and
\* ticker when it is not NULL.  A statement that would break one raises
\* sqlite3.IntegrityError.
UniqueClientId(table) ==
  \A i, j \in 1..Len(table) :
    table[i].client_id = table[j].client_id => i = j

UniqueToken(table) ==
  \A i, j \in 1..Len(table) : table[i].token = table[j].token => i = j

\* The table declared without the constraint on ticker.
UniqueTickerDropped(table) == TRUE

UniqueTicker(table) ==
  \A i, j \in 1..Len(table) :
    (table[i].ticker # NULL /\ table[i].ticker = table[j].ticker) => i = j

\* -------------------------------------------------------------- SQL helpers
Min(S) == CHOOSE x \in S : \A y \in S : x <= y

\* WHERE ticker IS NULL
Unclaimed(table) == {i \in 1..Len(table) : table[i].ticker = NULL}

\* WHERE ticker = ?
BoundTo(table, ticker) == {i \in 1..Len(table) : table[i].ticker = ticker}

\* WHERE client_id = ?
WithClientId(table, cid) == {i \in 1..Len(table) : table[i].client_id = cid}

\* cursor.fetchone() of SELECT client_id, token: the first selected row in
\* table order, <<>> for None
FetchOne(table, rows) ==
  IF rows = {} THEN <<>>
  ELSE <<table[Min(rows)].client_id, table[Min(rows)].token>>

\* A lookup that finds no binding.
check_existing_bot_never(ticker) == <<>>

\* check_existing_bot(ticker): SELECT client_id, token WHERE ticker = ?
check_existing_bot(ticker) == FetchOne(newbots, BoundTo(newbots, ticker))

\* SELECT client_id, token FROM newbots WHERE ticker IS NULL
SelectUnclaimed == FetchOne(newbots, Unclaimed(newbots))

\* An UPDATE that sets the ticker and leaves the type as it is.
UpdateTickerOnly(table, ticker, typ, cid) ==
  [i \in 1..Len(table) |->
     IF i \in WithClientId(table, cid)
     THEN [table[i] EXCEPT !.ticker = ticker]
     ELSE table[i]]

\* UPDATE newbots SET ticker = ?, type = ? WHERE client_id = ?
UpdateClaim(table, ticker, typ, cid) ==
  [i \in 1..Len(table) |->
     IF i \in WithClientId(table, cid)
     THEN [table[i] EXCEPT !.ticker = ticker, !.type = typ]
     ELSE table[i]]

\* An UPDATE that matches no row.
RowCountZero(table, cid) == 0

\* claim_cur.rowcount
RowCount(table, cid) == Cardinality(WithClientId(table, cid))

\* INSERT INTO newbots VALUES (?, ?, NULL, NULL)
InsertUnclaimed(table, cid, tok) == Append(table, Row(cid, tok, NULL, NULL))

\* ---------------------------------------------------------- external calls
\* What an HTTP call can do: answer 2xx, answer a non-success status, or fail
\* in transport, in which case requests' get/post/patch raises.
HttpOutcomes == {"ok", "http_error", "transport_error"}

\* What a validation call can do besides: answer 2xx with a body that is not
\* JSON, or with JSON that lacks the fields read after the try block.
ValidateOutcomes == HttpOutcomes \cup {"bad_json", "missing_field"}

\* A returned value or a raised exception.
Ret(v) == [raised |-> FALSE, value |-> v]
Raise == [raised |-> TRUE, value |-> <<>>]

\* log(message): posts to the webhook and returns the status code, which no
\* caller reads; nothing catches a transport failure of execute().
log(outcome) == IF outcome = "transport_error" THEN Raise ELSE Ret(<<>>)

\* crypto_validate(id): get() is outside the try, raise_for_status() and
\* json() are inside it and give (), data['id'] is after it
crypto_validate(id, outcome) ==
  IF outcome = "transport_error" THEN Raise
  ELSE IF outcome \in {"http_error", "bad_json"} \/ id \notin CoinList
  THEN Ret(<<>>)
  ELSE IF outcome = "missing_field" THEN Raise
  ELSE Ret(<<id, CoinSymbol(id)>>)

\* stock_validate returning the payload's symbol as Yahoo spells it.
stock_validate_as_spelled(id, outcome) ==
  IF outcome = "transport_error" THEN Raise
  ELSE IF outcome \in {"http_error", "bad_json"} \/ id \notin StockList
  THEN Ret(<<>>)
  ELSE IF outcome = "missing_field" THEN Raise
  ELSE Ret(<<StockSymbol(id), StockSymbol(id)>>)

\* stock_validate(id): as crypto_validate, None for a ticker Yahoo reports an
\* error for; the symbol of the payload, lower-cased, is id and name
stock_validate(id, outcome) ==
  IF outcome = "transport_error" THEN Raise
  ELSE IF outcome \in {"http_error", "bad_json"} \/ id \notin StockList
  THEN Ret(<<>>)
  ELSE IF outcome = "missing_field" THEN Raise
  ELSE LET symbol == Lower(StockSymbol(id)) IN Ret(<<symbol, symbol>>)

\* change_bot_username(token, username): False on a bad status
change_bot_username(outcome) ==
  IF outcome = "transport_error" THEN Raise
  ELSE IF outcome = "http_error" THEN Ret(<<>>)
  ELSE Ret(<<"username">>)

\* ------------------------------------------------------------------- Init
NoTxn == [owner |-> {}, table |-> <<>>]

\* pc is the statement a call is at; got is what get_new_bot gave the call
\* (a new bot, an existing one, or none left), prior the earlier calls that
\* returned a new bot for the same request, duplicate whether add_bot's
\* credential was already provisioned when it was called.
IdleCall ==
  [pc |-> "idle", op |-> "crypto", id |-> "", client_id |-> "", token |-> "",
   details |-> <<>>, bot |-> <<>>, result |-> NoResult, returned |-> "none",
   logged |-> {}, prior |-> {}, activation |-> "none", rename |-> "none",
   duplicate |-> FALSE, got |-> "none"]

Init ==
  /\ pool0 \in 0..InitPool
  /\ newbots = [i \in 1..pool0 |->
                  Row(Credentials[i].client_id, Credentials[i].token, NULL, NULL)]
  /\ txn = NoTxn
  /\ call = [r \in Calls |-> IdleCall]

\* ------------------------------------------------- allocation: crypto, stock
Validator(kind, id, outcome) ==
  IF kind = "crypto" THEN crypto_validate(id, outcome)
  ELSE stock_validate(id, outcome)

\* The calls that already returned a newly created bot for the same request.
Prior(kind, id) ==
  {s \in Calls : /\ call[s].pc = "done"
                 /\ call[s].op = kind /\ call[s].id = id
                 /\ call[s].result.client_id # <<>>
                 /\ ~call[s].result.existing}

\* A caller invokes crypto(id) or stock(id).
Start(r) ==
  /\ call[r].pc = "idle"
  /\ \E args \in AllocArgs :
       call' = [call EXCEPT ![r] =
                  [@ EXCEPT !.pc = "validate", !.op = args[1], !.id = args[2],
                            !.prior = Prior(args[1], args[2])]]
  /\ UNCHANGED <<newbots, txn, pool0>>

\* crypto_details = crypto_validate(id.lower())
Validate(r) ==
  /\ call[r].pc = "validate"
  /\ \E outcome \in ValidateOutcomes :
       LET v == Validator(call[r].op, Lower(call[r].id), outcome)
       IN call' = [call EXCEPT ![r] =
                     IF v.raised THEN [@ EXCEPT !.pc = "raised"]
                     ELSE IF v.value = <<>> THEN [@ EXCEPT !.pc = "fallback"]
                     ELSE [@ EXCEPT !.pc = "check", !.details = v.value]]
  /\ UNCHANGED <<newbots, txn, pool0>>

\* The value crypto() and stock() put under 'client_id' on the fallback path.
FallbackClientId(kind, possible_id) ==
  IF kind = "crypto" THEN <<possible_id[1]>> ELSE possible_id

\* The entry point giving up on a failed validation without the lookup.
FallbackWithoutLookup(r) ==
  /\ call[r].pc = "fallback"
  /\ call' = [call EXCEPT ![r].pc = "log_invalid"]
  /\ UNCHANGED <<newbots, txn, pool0>>

\* if not details: possible_id = check_existing_bot(id.lower())
Fallback(r) ==
  /\ call[r].pc = "fallback"
  /\ LET possible_id == check_existing_bot(Lower(call[r].id))
     IN call' = [call EXCEPT ![r] =
                   IF possible_id # <<>>
                   THEN [@ EXCEPT !.pc = "done",
                           !.result = ResExisting(
                              FallbackClientId(call[r].op, possible_id))]
                   ELSE [@ EXCEPT !.pc = "log_invalid"]]
  /\ UNCHANGED <<newbots, txn, pool0>>

\* A log(message) call followed by the return of a result.
LogAndReturn(r, msg, result) ==
  \E outcome \in HttpOutcomes :
    call' = [call EXCEPT ![r] =
               IF log(outcome).raised THEN [@ EXCEPT !.pc = "raised"]
               ELSE [@ EXCEPT !.pc = "done", !.result = result,
                              !.logged = @ \cup {msg}]]

\* A log(message) call followed by the next statement.
LogAndGo(r, msg, next) ==
  \E outcome \in HttpOutcomes :
    call' = [call EXCEPT ![r] =
               IF log(outcome).raised THEN [@ EXCEPT !.pc = "raised"]
               ELSE [@ EXCEPT !.pc = next, !.logged = @ \cup {msg}]]

\* log('unable to validate ...'); return {'error': ...}
LogInvalid(r) ==
  /\ call[r].pc = "log_invalid"
  /\ LogAndReturn(r, MsgInvalid, ResError(ErrInvalid))
  /\ UNCHANGED <<newbots, txn, pool0>>

\* get_new_bot: client_id = check_existing_bot(ticker)
Check(r) ==
  /\ call[r].pc = "check"
  /\ LET client_id == check_existing_bot(call[r].details[1])
     IN call' = [call EXCEPT ![r] =
                   IF client_id # <<>>
                   THEN [@ EXCEPT !.pc = "log_existing", !.got = "existing",
                           !.bot = <<client_id[1], None>>]
                   ELSE [@ EXCEPT !.pc = "select"]]
  /\ UNCHANGED <<newbots, txn, pool0>>

\* log('existing bot requested ...'); return {'client_id', 'existing'}
LogExisting(r) ==
  /\ call[r].pc = "log_existing"
  /\ LogAndReturn(r, MsgExisting, ResExisting(<<call[r].bot[1]>>))
  /\ UNCHANGED <<newbots, txn, pool0>>

\* get_new_bot: the SELECT of an unclaimed row and fetchone()
Select(r) ==
  /\ call[r].pc = "select"
  /\ LET new_bot == SelectUnclaimed
     IN call' = [call EXCEPT ![r] =
                   IF new_bot = <<>>
                   THEN [@ EXCEPT !.pc = "unable_get", !.got = "exhausted"]
                   ELSE [@ EXCEPT !.pc = "claim", !.bot = new_bot]]
  /\ UNCHANGED <<newbots, txn, pool0>>

\* get_new_bot: the UPDATE.  It opens the write transaction, so it waits while
\* another connection holds one; a constraint violation raises IntegrityError
\* and the connection is dropped, which rolls the transaction back.
Claim(r) ==
  /\ call[r].pc = "claim"
  /\ txn.owner = {}
  /\ LET table == UpdateClaim(newbots, Lower(call[r].details[1]), call[r].op,
                              call[r].bot[1])
     IN IF ~UniqueTicker(table)
        THEN /\ call' = [call EXCEPT ![r].pc = "raised"]
             /\ txn' = txn
        ELSE IF RowCount(newbots, call[r].bot[1]) = 0
        THEN /\ call' = [call EXCEPT ![r].pc = "unable_claim"]
             /\ txn' = [owner |-> {r}, table |-> newbots]
        ELSE /\ call' = [call EXCEPT ![r].pc = "commit"]
             /\ txn' = [owner |-> {r}, table |-> table]
  /\ UNCHANGED <<newbots, pool0>>

\* get_new_bot: db_client.commit(); return new_bot
Commit(r) ==
  /\ call[r].pc = "commit"
  /\ txn.owner = {r}
  /\ newbots' = txn.table
  /\ txn' = NoTxn
  /\ call' = [call EXCEPT ![r].pc = "attempt", ![r].got = "new"]
  /\ UNCHANGED pool0

\* get_new_bot: log('Unable to ...'); return ().  Returning drops the
\* connection, which rolls back a transaction it still holds.
LogUnable(r) ==
  /\ call[r].pc \in {"unable_get", "unable_claim"}
  /\ LogAndGo(r, IF call[r].pc = "unable_get" THEN MsgUnableGet
                 ELSE MsgUnableClaim, "no_more")
  /\ txn' = IF txn.owner = {r} THEN NoTxn ELSE txn
  /\ UNCHANGED <<newbots, pool0>>

\* if not bot_details: log('no more new bots avalible'); return {'error': ...}
LogNoMore(r) ==
  /\ call[r].pc = "no_more"
  /\ LogAndReturn(r, MsgNoMore,
                  ResError(IF call[r].op = "crypto" THEN ErrNoBotsCrypto
                           ELSE ErrNoBotsStock))
  /\ UNCHANGED <<newbots, txn, pool0>>

\* log('attempting to create new bot ...')
Attempt(r) ==
  /\ call[r].pc = "attempt"
  /\ LogAndGo(r, MsgAttempt, "create")
  /\ UNCHANGED <<newbots, txn, pool0>>

\* create_bot: the POST to /ticker
Create(r) ==
  /\ call[r].pc = "create"
  /\ \E outcome \in HttpOutcomes :
       call' = [call EXCEPT ![r] =
                  IF outcome = "transport_error" THEN [@ EXCEPT !.pc = "raised"]
                  ELSE IF outcome = "ok"
                  THEN [@ EXCEPT !.pc = "rename", !.activation = "ok"]
                  ELSE [@ EXCEPT !.pc = "create_failed", !.activation = "failed"]]
  /\ UNCHANGED <<newbots, txn, pool0>>

\* create_bot: log(resp.text); return False, then the entry point returns the
\* error
CreateFailed(r) ==
  /\ call[r].pc = "create_failed"
  /\ LogAndReturn(r, MsgRespText, ResError(ErrTrouble))
  /\ UNCHANGED <<newbots, txn, pool0>>

\* create_bot: change_bot_username(token, name); return True
Rename(r) ==
  /\ call[r].pc = "rename"
  /\ \E outcome \in HttpOutcomes :
       LET v == change_bot_username(outcome)
       IN call' = [call EXCEPT ![r] =
                     IF v.raised THEN [@ EXCEPT !.pc = "raised"]
                     ELSE [@ EXCEPT !.pc = "success",
                             !.rename = IF v.value = <<>> THEN "failed" ELSE "ok"]]
  /\ UNCHANGED <<newbots, txn, pool0>>

\* if success: log(invite link); return {'client_id': bot_details[0]}
Success(r) ==
  /\ call[r].pc = "success"
  /\ LogAndReturn(r, MsgInvite, ResNew(<<call[r].bot[1]>>))
  /\ UNCHANGED <<newbots, txn, pool0>>

\* ------------------------------------------------------ registration: add_bot
Exists(table, cid, tok) ==
  \E i \in 1..Len(table) : table[i].client_id = cid \/ table[i].token = tok

\* An operator invokes add_bot(client_id, token).
AddBotStart(r) ==
  /\ call[r].pc = "idle"
  /\ \E args \in AddArgs :
       call' = [call EXCEPT ![r] =
                  [@ EXCEPT !.pc = "add_rename", !.op = "add_bot",
                            !.client_id = args[1], !.token = args[2],
                            !.duplicate = Exists(newbots, args[1], args[2])]]
  /\ UNCHANGED <<newbots, txn, pool0>>

\* A registration that goes on to the INSERT whatever the rename answered.
AddBotRenameUnchecked(r) ==
  /\ call[r].pc = "add_rename"
  /\ \E outcome \in HttpOutcomes :
       LET v == change_bot_username(outcome)
       IN call' = [call EXCEPT ![r] =
                     IF v.raised THEN [@ EXCEPT !.pc = "raised"]
                     ELSE [@ EXCEPT !.pc = "add_insert",
                             !.rename = IF v.value = <<>> THEN "failed" ELSE "ok"]]
  /\ UNCHANGED <<newbots, txn, pool0>>

\* if not change_bot_username(token, 'new ticker bot')
AddBotRename(r) ==
  /\ call[r].pc = "add_rename"
  /\ \E outcome \in HttpOutcomes :
       LET v == change_bot_username(outcome)
       IN call' = [call EXCEPT ![r] =
                     IF v.raised THEN [@ EXCEPT !.pc = "raised"]
                     ELSE IF v.value = <<>>
                     THEN [@ EXCEPT !.pc = "add_unable_name", !.rename = "failed"]
                     ELSE [@ EXCEPT !.pc = "add_insert", !.rename = "ok"]]
  /\ UNCHANGED <<newbots, txn, pool0>>

\* The INSERT.  It opens the write transaction; a violated uniqueness
\* constraint raises IntegrityError; the rowcount of an executed INSERT is 1.
AddBotInsert(r) ==
  /\ call[r].pc = "add_insert"
  /\ txn.owner = {}
  /\ LET table == InsertUnclaimed(newbots, call[r].client_id, call[r].token)
         rowcount == Len(table) - Len(newbots)
     IN IF ~(UniqueClientId(table) /\ UniqueToken(table))
        THEN /\ call' = [call EXCEPT ![r].pc = "raised"]
             /\ txn' = txn
        ELSE IF rowcount = 0
        THEN /\ call' = [call EXCEPT ![r].pc = "add_unable_add"]
             /\ txn' = [owner |-> {r}, table |-> newbots]
        ELSE /\ call' = [call EXCEPT ![r].pc = "add_commit"]
             /\ txn' = [owner |-> {r}, table |-> table]
  /\ UNCHANGED <<newbots, pool0>>

\* db_client.commit(); return True
AddBotCommit(r) ==
  /\ call[r].pc = "add_commit"
  /\ txn.owner = {r}
  /\ newbots' = txn.table
  /\ txn' = NoTxn
  /\ call' = [call EXCEPT ![r].pc = "done", ![r].returned = "True"]
  /\ UNCHANGED pool0

\* log('unable to change the name ...') or log('Unable to add new bot to db');
\* return False
AddBotLog(r) ==
  /\ call[r].pc \in {"add_unable_name", "add_unable_add"}
  /\ \E outcome \in HttpOutcomes :
       call' = [call EXCEPT ![r] =
                  IF log(outcome).raised THEN [@ EXCEPT !.pc = "raised"]
                  ELSE [@ EXCEPT !.pc = "done", !.returned = "False",
                          !.logged = @ \cup {IF call[r].pc = "add_unable_name"
                                             THEN MsgUnableName
                                             ELSE MsgUnableAdd}]]
  /\ txn' = IF txn.owner = {r} THEN NoTxn ELSE txn
  /\ UNCHANGED <<newbots, pool0>>

\* ------------------------------------------------------------ specification
Step(r) ==
  \/ Validate(r)
  \/ Fallback(r)
  \/ LogInvalid(r)
  \/ Check(r)
  \/ LogExisting(r)
  \/ Select(r)
  \/ Claim(r)
  \/ Commit(r)
  \/ LogUnable(r)
  \/ LogNoMore(r)
  \/ Attempt(r)
  \/ Create(r)
  \/ CreateFailed(r)
  \/ Rename(r)
  \/ Success(r)
  \/ AddBotRename(r)
  \/ AddBotInsert(r)
  \/ AddBotCommit(r)
  \/ AddBotLog(r)

Next ==
  \/ \E r \in Calls : Start(r)
  \/ \E r \in Calls : AddBotStart(r)
  \/ \E r \in Calls : Step(r)

Spec == Init /\ [][Next]_vars

\* Calls made one after the other: a call starts only when no other call is
\* in flight.
NoneInFlight == \A s \in Calls : call[s].pc \in {"idle"} \cup Terminal

StartSeq(r) == NoneInFlight /\ Start(r)

AddBotStartSeq(r) == NoneInFlight /\ AddBotStart(r)

NextSeq ==
  \/ \E r \in Calls : StartSeq(r)
  \/ \E r \in Calls : AddBotStartSeq(r)
  \/ \E r \in Calls : Step(r)

SpecSeq == Init /\ [][NextSeq]_vars

\* A stream of requests, NumCalls of them in flight at a time: the worker
\* whose call has returned or raised takes the next allocation request.  Its
\* own last call counts among the earlier calls of the new one.
StartNext(r) ==
  /\ call[r].pc \in Terminal
  /\ \E args \in AllocArgs :
       call' = [call EXCEPT ![r] =
                  [IdleCall EXCEPT !.pc = "validate", !.op = args[1],
                                   !.id = args[2],
                                   !.prior = Prior(args[1], args[2])]]
  /\ UNCHANGED <<newbots, txn, pool0>>

NextStream ==
  \/ Next
  \/ \E r \in Calls : StartNext(r)

SpecStream == Init /\ [][NextStream]_vars

TypeOK ==
  /\ txn.owner \subseteq Calls
  /\ \A r \in Calls : call[r].op \in Kinds \cup {"add_bot"}
  /\ Len(newbots) <= InitPool + NumCalls

\* ------------------------------------------------------------------ claims
Allocs == {r \in Calls : call[r].op \in Kinds /\ call[r].pc # "idle"}

\* The ticker a request's claim is keyed on, once validation has answered.
Canonical(r) == Lower(call[r].details[1])

InGetNewBot ==
  {"validate", "check", "select", "claim", "commit", "unable_get", "unable_claim"}

\* All calls are allocation requests for pairwise distinct valid tickers that
\* have come out of get_new_bot, against a pool of pool0 < NumCalls entries.
RaceSettled ==
  /\ Allocs = Calls
  /\ pool0 < NumCalls
  /\ \A r \in Calls : call[r].details # <<>> /\ call[r].pc \notin InGetNewBot
  /\ \A r, s \in Calls : r # s => Canonical(r) # Canonical(s)

\* C1: N concurrent requests for distinct valid tickers against K < N
\* unclaimed entries: exactly K obtain a newly claimed entry, the K entries
\* are pairwise distinct, the other N-K observe exhaustion, and no entry is
\* ever handed to two requests.
C1_UniquenessUnderRace ==
  /\ \A r, s \in Calls :
       (r # s /\ call[r].got = "new" /\ call[s].got = "new")
         => call[r].bot[1] # call[s].bot[1]
  /\ RaceSettled =>
       /\ Cardinality({r \in Calls : call[r].got = "new"}) = pool0
       /\ \A r \in Calls : call[r].got \in {"new", "exhausted"}

C3_Irreversible ==
  [][\A i \in 1..Len(newbots) :
       newbots[i].ticker # NULL =>
         /\ i <= Len(newbots')
         /\ newbots'[i].ticker = newbots[i].ticker]_vars

\* C4: of two sequential requests for the same ticker, the first succeeding,
\* the second returns the same client_id marked existing and consumes no
\* further entry of the pool.
C4_Idempotent ==
  \A r \in Allocs :
    (call[r].prior # {} /\ call[r].details # <<>>) =>
      /\ call[r].got # "new"
      /\ call[r].pc = "done" =>
           /\ call[r].result.existing
           /\ call[r].result.error = ""
           /\ \A p \in call[r].prior :
                call[r].result.client_id = call[p].result.client_id

\* A request has returned existing for a ticker that an earlier request
\* returned a new bot for.
C4_Witness ==
  \E r \in Allocs :
    /\ call[r].prior # {} /\ call[r].details # <<>>
    /\ call[r].pc = "done" /\ call[r].result.existing
    /\ Unclaimed(newbots) # {}

\* C5: when the activation after a committed claim fails, the claimed entry
\* stays bound to the canonical ticker and the request's outcome is an error.
C5_NoRollback ==
  \A r \in Allocs :
    call[r].activation = "failed" =>
      /\ \E i \in WithClientId(newbots, call[r].bot[1]) :
           newbots[i].ticker = Canonical(r)
      /\ call[r].pc = "done" => call[r].result.error # ""

\* C6: when validation fails, a request whose lower-cased raw ticker is bound
\* returns that binding as existing, one whose ticker is not bound returns
\* the validation error, and the store is unchanged either way.
C6_Fallback ==
  [][\A r \in Calls :
       /\ (call[r].pc = "fallback" /\ call'[r] # call[r]) =>
            /\ newbots' = newbots
            /\ IF BoundTo(newbots, Lower(call[r].id)) # {}
               THEN /\ call'[r].pc = "done"
                    /\ call'[r].result.existing
                    /\ call'[r].result.error = ""
                    /\ \E i \in BoundTo(newbots, Lower(call[r].id)) :
                         call'[r].result.client_id[1] = newbots[i].client_id
               ELSE call'[r].pc = "log_invalid"
       /\ (call[r].pc = "log_invalid" /\ call'[r] # call[r]) =>
            /\ newbots' = newbots
            /\ call'[r].pc = "done" => call'[r].result = ResError(ErrInvalid)]_vars

\* A request whose validation failed has returned the binding that an
\* earlier request committed for its ticker.
C6_Witness ==
  \E r \in Allocs :
    /\ call[r].details = <<>>
    /\ call[r].pc = "done" /\ call[r].result.existing
    /\ \E i \in BoundTo(newbots, Lower(call[r].id)) :
         call[r].result.client_id[1] = newbots[i].client_id

\* C7: every returned outcome is {client_id}, {client_id, existing} or
\* {error}, and client_id is the client_id of one pool entry, nothing more.
C7_OutcomeShape ==
  \A r \in Allocs :
    call[r].pc = "done" =>
      \/ /\ call[r].result.error # ""
         /\ call[r].result.client_id = <<>>
         /\ ~call[r].result.existing
      \/ /\ call[r].result.error = ""
         /\ Len(call[r].result.client_id) = 1
         /\ WithClientId(newbots, call[r].result.client_id[1]) # {}

\* C8: a claim attempted against a pool with no unclaimed entry ends in the
\* pool-exhaustion error, not in an exception, and leaves the store unchanged.
C8_Exhaustion ==
  [][\A r \in Calls :
       (call[r].got = "exhausted" /\ call'[r] # call[r]) =>
         /\ newbots' = newbots
         /\ call'[r].pc # "raised"
         /\ call'[r].pc = "done" =>
              call'[r].result.error \in {ErrNoBotsCrypto, ErrNoBotsStock}]_vars

\* C9: add_bot with a client_id or token that an entry already has returns
\* failure as a value, not an exception, and leaves the entries as they were.
C9_DuplicateDeclined ==
  [][\A r \in Calls :
       (call[r].op = "add_bot" /\ call[r].duplicate /\ call'[r] # call[r]) =>
         /\ newbots' = newbots
         /\ call[r].pc = "add_insert" => call'[r].pc # "raised"
         /\ call'[r].pc = "done" => call'[r].returned = "False"]_vars

\* The message that reports an outcome to the notification sink.
Describes(msg, result) ==
  \/ result.error = ErrInvalid /\ msg = MsgInvalid
  \/ result.error \in {ErrNoBotsCrypto, ErrNoBotsStock}
       /\ msg \in {MsgNoMore, MsgUnableGet, MsgUnableClaim}
  \/ result.error = ErrTrouble /\ msg = MsgRespText
  \/ result.error = "" /\ result.existing /\ msg = MsgExisting
  \/ result.error = "" /\ ~result.existing /\ msg = MsgInvite

\* C10: every request that returns an outcome has sent a message describing
\* that outcome to the notification sink before it returns.
C10_Reported ==
  \A r \in Allocs :
    call[r].pc = "done" =>
      \E msg \in call[r].logged : Describes(msg, call[r].result)

\* The statements at which an allocation request is inside a log() call.
LogPcs ==
  {"log_invalid", "log_existing", "unable_get", "unable_claim", "no_more",
   "attempt", "create_failed", "success"}

\* C11: the outcome a request returns and the store are the same whether a
\* delivery to the notification sink succeeds or fails: a log() call of a
\* request always continues with the statement after it and writes nothing.
C11_SinkIndependent ==
  [][\A r \in Calls :
       (call[r].pc \in LogPcs /\ call'[r] # call[r]) =>
         /\ call'[r].pc # "raised"
         /\ newbots' = newbots]_vars

\* C12: any failure of the validation call is treated as invalid: the request
\* goes on to the existing-binding fallback and ends in a result, never in an
\* exception.
C12_ValidationFailureIsInvalid ==
  [][\A r \in Calls :
       /\ (call[r].pc = "validate" /\ call'[r] # call[r]) =>
            call'[r].pc \in {"fallback", "check"}
       /\ (call[r].pc \in {"fallback", "log_invalid"} /\ call'[r] # call[r]) =>
            call'[r].pc \in {"log_invalid", "done"}]_vars

C14_RenameFailureIsError ==
  \A r \in Allocs :
    (call[r].got = "new" /\ call[r].pc = "done") =>
      /\ call[r].rename = "failed" => call[r].result = ResError(ErrTrouble)
      /\ call[r].result = ResNew(<<call[r].bot[1]>>) => call[r].rename = "ok"

\* C15: a request that starts after an earlier request has committed a
\* binding for its ticker and returned it claims no entry and returns
\* existing, whatever the other requests do and whether or not the pool has
\* an unclaimed entry left.
C15_ExistingAfterCommit ==
  \A r \in Allocs :
    (call[r].prior # {} /\ call[r].details # <<>>) =>
      /\ call[r].got # "new"
      /\ call[r].pc \notin {"select", "claim", "unable_get", "no_more"}
      /\ call[r].pc = "done" =>
           call[r].result.existing /\ call[r].result.error = ""

\* The type of every row of a table is null exactly when its ticker is, and
\* is crypto or stock otherwise.
TypeFollowsTicker(table) ==
  \A i \in 1..Len(table) :
    /\ table[i].type = NULL <=> table[i].ticker = NULL
    /\ table[i].type \in Kinds \cup {NULL}

\* C16: in every state a request can see (the committed table, and for the
\* writer its own open transaction) an entry's type is null exactly when its
\* ticker is null, and a non-null type is crypto or stock.
C16_TypeWithTicker ==
  /\ TypeFollowsTicker(newbots)
  /\ txn.owner # {} => TypeFollowsTicker(txn.table)

\* The committed table holds a claimed and an unclaimed entry while a request
\* is about to read it.
C16_Witness ==
  /\ \E i, j \in 1..Len(newbots) :
       newbots[i].type \in Kinds /\ newbots[j].ticker = NULL
  /\ \E r \in Allocs : call[r].pc \in {"check", "select", "fallback"}

AddBots == {r \in Calls : call[r].op = "add_bot" /\ call[r].pc # "idle"}

\* C17: add_bot inserts an entry only after the rename with the credential's
\* token has succeeded, and the entry it inserts is unclaimed; when the rename
\* fails the call writes nothing and returns False.
C17_InsertAfterRename ==
  [][/\ Len(newbots') > Len(newbots) =>
          \E r \in AddBots :
            /\ call[r].rename = "ok" /\ call[r].pc = "add_commit"
            /\ newbots' = Append(newbots, Row(call[r].client_id, call[r].token,
                                               NULL, NULL))
     /\ \A r \in AddBots :
          (call[r].rename = "failed" /\ call'[r] # call[r]) =>
            /\ newbots' = newbots
            /\ call'[r].pc = "done" => call'[r].returned = "False"]_vars

\* One registration has inserted its credential and returned True, another
\* has returned False after a failed rename.
C17_Witness ==
  \E r, s \in AddBots :
    /\ call[r].pc = "done" /\ call[r].returned = "True"
    /\ \E i \in WithClientId(newbots, call[r].client_id) :
         newbots[i] = Row(call[r].client_id, call[r].token, NULL, NULL)
    /\ call[s].pc = "done" /\ call[s].rename = "failed"

\* The statements at which an allocation request waits on an external call:
\* the validation, a notification, the activation POST and the rename.
ExternalPcs == {"validate", "create", "rename"} \cup LogPcs

\* C18: no allocation request holds an open write transaction on the store
\* while it waits on an external call, so the write lock is only ever held
\* by a request whose next statement is its commit.
C18_NoTxnAcrossExternalCall ==
  \A r \in Allocs :
    txn.owner = {r} => /\ call[r].pc \notin ExternalPcs
                       /\ call[r].pc = "commit"

\* A request waits on an external call after its own claim was committed
\* while another request holds the write transaction of its claim.
C18_Witness ==
  \E r, s \in Allocs :
    /\ call[r].pc \in ExternalPcs /\ call[r].got = "new"
    /\ txn.owner = {s} /\ call[s].pc = "commit"

\* C19: when a request has returned the success outcome {client_id: c} for
\* its canonical ticker, the store holds the entry c bound to that ticker,
\* at that moment and ever after.
C19_SuccessIsBound ==
  \A r \in Allocs :
    (call[r].pc = "done" /\ call[r].got = "new"
       /\ call[r].result = ResNew(<<call[r].bot[1]>>)) =>
      \E i \in WithClientId(newbots, call[r].bot[1]) :
        newbots[i].ticker = Canonical(r)

====
